---- MODULE Spec2Model ----
(***************************************************************************)
(* Model of the HS-code pipeline:                                          *)
(*   1_build_hscode_tree.py      parse_notes, build_tree                   *)
(*   2_transverse_hscode_tree.py HSCClassifier (_get_llm_choice,           *)
(*                               classify_product)                         *)
(*                                                                         *)
(* A Python str is a sequence of one-character strings, so that slicing,   *)
(* strip, len, "in" and join are computed.  A dict is the sequence of its  *)
(* (key, value) entries in insertion order.                                *)
(***************************************************************************)
EXTENDS Integers, Sequences, FiniteSets, TLC

(* ------------------------------ bounds --------------------------------- *)
\* longest table the build is run on alone
MaxRows == 4
\* longest table the whole pipeline (build, then classification) is run on
MaxPipelineRows == 2
\* the count of oracle attempts per step saturates here
MaxAttempts == 2
\* longest table of the runs in which the input table is replaced
MaxRebuildRows == 1
\* longest table two concurrent calls are run on
MaxConcurrentRows == 1

(* --------------------------- Python values ----------------------------- *)
\* None and NaN are sequences that no str equals (a str has 1-char elements)
None == <<"None">>
NaN == <<"NaN">>

Min(a, b) == IF a < b THEN a ELSE b

Whitespace == {" ", "\t", "\n"}

\* str.strip(): drop leading and trailing whitespace
RECURSIVE LStrip(_)
LStrip(s) == IF s # <<>> /\ Head(s) \in Whitespace THEN LStrip(Tail(s)) ELSE s

RECURSIVE RStrip(_)
RStrip(s) ==
  IF s # <<>> /\ s[Len(s)] \in Whitespace THEN RStrip(SubSeq(s, 1, Len(s) - 1)) ELSE s

Strip(s) == RStrip(LStrip(s))

\* p in s (substring test)
Contains(s, p) ==
  \E k \in 1..(Len(s) - Len(p) + 1) : SubSeq(s, k, k + Len(p) - 1) = p

\* s[:n]
Take(s, n) == SubSeq(s, 1, Min(n, Len(s)))

\* sep.join(parts)
RECURSIVE Join(_, _)
Join(parts, sep) ==
  IF parts = <<>> THEN <<>>
  ELSE IF Len(parts) = 1 THEN parts[1]
  ELSE parts[1] \o sep \o Join(Tail(parts), sep)

\* str(v) of a cell: a str is itself, a float NaN prints as "nan"
Str(v) == IF v = NaN THEN <<"n", "a", "n">> ELSE v

\* pd.isna(v)
IsNa(v) == v = NaN

(* ------------------------------- dicts --------------------------------- *)
DictKeys(d) == {d[n].k : n \in DOMAIN d}

DictHas(d, key) == key \in DictKeys(d)

DictIndex(d, key) == CHOOSE n \in DOMAIN d : d[n].k = key

\* d[key]
DictGet(d, key) == d[DictIndex(d, key)].v

\* d.get(key, default)
DictGetOr(d, key, default) == IF DictHas(d, key) THEN DictGet(d, key) ELSE default

\* d[key] = value: an existing key keeps its position, a new key goes last
DictPut(d, key, value) ==
  IF DictHas(d, key)
  THEN [d EXCEPT ![DictIndex(d, key)] = [k |-> key, v |-> value]]
  ELSE Append(d, [k |-> key, v |-> value])

\* node.get(field, default) on a node dict
NodeGet(node, field, default) ==
  IF field \in DOMAIN node THEN node[field] ELSE default

(* ----------------------------- input rows ------------------------------ *)
\* A row of the frame pd.read_csv returns: an absent cell is NaN.
Row(h, s, i, d, imp, exp, sst) ==
  [HEADER |-> h, SUB |-> s, ITEM |-> i, DESCRIPTION |-> d,
   IMPORT_RATE |-> imp, EKSPORT_RATE |-> exp, SST |-> sst]

RowGroupTitle ==
  Row(<<"0", "1">>, NaN, NaN,
      <<"L", "i", "v", "e", " ", "a", "n", "i", "m", "a", "l", "s">>, NaN, NaN, NaN)

RowHeadingTitle ==
  Row(<<"0", "1", "0", "1">>, NaN, NaN,
      <<"L", "i", "v", "e", " ", "h", "o", "r", "s", "e", "s">>, NaN, NaN, NaN)

RowSubheadingTitle ==
  Row(<<"0", "1", "0", "1">>, <<"2", "1">>, NaN,
      <<"P", "u", "r", "e", "-", "b", "r", "e", "d", " ", "b", "r", "e", "e", "d", "i", "n", "g">>,
      NaN, NaN, NaN)

RowLeaf ==
  Row(<<"0", "1", "0", "1">>, <<"2", "1">>, <<"1", "0">>,
      <<"H", "o", "r", "s", "e", "s">>, <<"0", "%">>, <<"0", "%">>, <<"F", "r", "e", "e">>)

\* same code as RowLeaf, padded description, other rates
RowLeafPadded ==
  Row(<<"0", "1", "0", "1">>, <<"2", "1">>, <<"1", "0">>,
      <<" ", "M", "u", "l", "e", "s", " ">>, <<"5", "%">>, <<"0", "%">>, <<"1", "0", "%">>)

\* a leaf row whose SUB cell is absent, in another group
RowLeafNoSub ==
  Row(<<"0", "2", "0", "7">>, NaN, <<"3", "0">>,
      <<"H", "e", "n", "s">>, <<"5", "%">>, <<"0", "%">>, <<"F", "r", "e", "e">>)

RowNoteMarker ==
  Row(<<"0", "1">>, NaN, NaN,
      <<"C", "h", "a", "p", "t", "e", "r", " ", "N", "o", "t", "e", "s", ".">>, NaN, NaN, NaN)

\* a continuation line of a note block: no HEADER cell
RowNoteLine ==
  Row(NaN, NaN, NaN, <<"1", ".", " ", "L", "i", "v", "e">>, NaN, NaN, NaN)

RowPool ==
  {RowGroupTitle, RowHeadingTitle, RowSubheadingTitle, RowLeaf, RowLeafPadded,
   RowLeafNoSub, RowNoteMarker, RowNoteLine}

\* the example table of the specification
ExampleTable == <<RowGroupTitle, RowHeadingTitle, RowSubheadingTitle, RowLeaf>>

BoundedSeq(S, n) == UNION {[1..m -> S] : m \in 0..n}

Tables == BoundedSeq(RowPool, MaxRows) \cup {ExampleTable}

\* the rows the pipeline tables are made of (the example table adds the
\* subheading title row)
PipelineRowPool ==
  {RowGroupTitle, RowHeadingTitle, RowLeaf, RowLeafNoSub, RowNoteMarker}

PipelineTables == BoundedSeq(PipelineRowPool, MaxPipelineRows) \cup {ExampleTable}

\* the rows of the tables two concurrent calls are run on (the example table
\* adds the title rows of the other levels)
ConcurrentRowPool == {RowHeadingTitle, RowLeaf, RowLeafNoSub}

ConcurrentTables ==
  BoundedSeq(ConcurrentRowPool, MaxConcurrentRows) \cup {ExampleTable}

\* the tables the input file is replaced with between runs of the build script
RebuildTables == BoundedSeq(RowPool, MaxRebuildRows) \cup {ExampleTable}

(* --------------------- 1_build_hscode_tree.py -------------------------- *)
\* DataFrame.fillna(''): every NaN cell becomes the empty str
FillNaRow(row) == [f \in DOMAIN row |-> IF IsNa(row[f]) THEN <<>> ELSE row[f]]

read_csv(csv) == [n \in DOMAIN csv |-> FillNaRow(csv[n])]

ChapterNotesMarker ==
  <<"C", "h", "a", "p", "t", "e", "r", " ", "N", "o", "t", "e", "s", ".">>

NotesMarker == <<"N", "o", "t", "e", "s", ".">>

Newline == <<"\n">>

\* the locals of parse_notes before its loop
parse_notes_init ==
  [chapter_notes |-> <<>>, current_key |-> None, current_text |-> <<>>,
   in_note_block |-> FALSE]

\* Python truthiness of current_key (None and '' are false)
Truthy(key) == key # None /\ key # <<>>

\* one iteration of the loop of parse_notes
parse_notes_row(st, row) ==
  LET desc == Strip(Str(row.DESCRIPTION))
      header == Strip(Str(row.HEADER))
      is_chapter_note_start == Contains(desc, ChapterNotesMarker) /\ Len(header) >= 2
      saved == IF Truthy(st.current_key)
               THEN DictPut(st.chapter_notes, st.current_key, Join(st.current_text, Newline))
               ELSE st.chapter_notes
  IN IF is_chapter_note_start
     THEN [chapter_notes |-> saved, current_key |-> Take(header, 2),
           current_text |-> <<desc>>, in_note_block |-> TRUE]
     ELSE IF st.in_note_block /\ IsNa(row.HEADER)
     THEN [st EXCEPT !.current_text = Append(@, desc)]
     ELSE IF st.in_note_block
     THEN [chapter_notes |-> saved, current_key |-> None, current_text |-> <<>>,
           in_note_block |-> FALSE]
     ELSE st

RECURSIVE parse_notes_loop(_, _, _)
parse_notes_loop(st, df, n) ==
  IF n > Len(df) THEN st ELSE parse_notes_loop(parse_notes_row(st, df[n]), df, n + 1)

\* parse_notes without the save of the last note after the loop
parse_notes_noflush(df) ==
  parse_notes_loop(parse_notes_init, df, 1).chapter_notes

\* parse_notes(df): the returned chapter_notes (also what it writes to the notes file)
parse_notes(df) ==
  LET st == parse_notes_loop(parse_notes_init, df, 1)
  IN IF Truthy(st.current_key)
     THEN DictPut(st.chapter_notes, st.current_key, Join(st.current_text, Newline))
     ELSE st.chapter_notes

\* the default of .get('description', 'z'*100)
Z100 == [n \in 1..100 |-> "z"]

InnerNode(desc, notes) == [description |-> desc, notes |-> notes, children |-> <<>>]

\* LeafNode with the import and export rates exchanged
LeafNode_swapped(desc, row) ==
  [description |-> desc, import_rate |-> row.EKSPORT_RATE,
   export_rate |-> row.IMPORT_RATE, sst_rate |-> row.SST, children |-> <<>>]

LeafNode(desc, row) ==
  [description |-> desc, import_rate |-> row.IMPORT_RATE,
   export_rate |-> row.EKSPORT_RATE, sst_rate |-> row.SST, children |-> <<>>]

\* the row filter of build_tree: rows it skips
SkipsRow(row) ==
  LET desc == Strip(Str(row.DESCRIPTION))
  IN row.HEADER = <<>> \/ desc = <<>> \/ Contains(desc, NotesMarker)

\* node with children[key] = child
SetChild(node, key, child) == [node EXCEPT !.children = DictPut(@, key, child)]

\* build_tree_row whose title rows store a fresh node over the one that is
\* already there
build_tree_row_replace(hs_tree, chapter_notes, row) ==
  LET header == row.HEADER
      sub == row.SUB
      item == row.ITEM
      desc == Strip(Str(row.DESCRIPTION))
      chapter_code == Take(header, 2)
      heading_code == header
      subheading_code == header \o sub
      full_code == header \o sub \o item
      \* Chapter node (level 1)
      tree1 == IF ~DictHas(hs_tree, chapter_code)
               THEN DictPut(hs_tree, chapter_code,
                            InnerNode(<<>>, DictGetOr(chapter_notes, chapter_code, None)))
               ELSE hs_tree
      chapter1 == DictGet(tree1, chapter_code)
      \* heading title row
      chapterT == IF ~DictHas(chapter1.children, heading_code)
                  THEN SetChild(chapter1, heading_code, InnerNode(desc, None))
                  ELSE SetChild(chapter1, heading_code, InnerNode(desc, None))
      chapterTD == IF Len(desc) < Len(NodeGet(chapterT, "description", Z100))
                   THEN [chapterT EXCEPT !.description = desc]
                   ELSE chapterT
      \* other rows: ensure the heading node
      chapter2 == IF ~DictHas(chapter1.children, heading_code)
                  THEN SetChild(chapter1, heading_code, InnerNode(<<>>, None))
                  ELSE chapter1
      heading2 == DictGet(chapter2.children, heading_code)
      \* subheading title row
      headingT == IF ~DictHas(heading2.children, subheading_code)
                  THEN SetChild(heading2, subheading_code, InnerNode(desc, None))
                  ELSE SetChild(heading2, subheading_code, InnerNode(desc, None))
      \* leaf rows: ensure the subheading node
      heading3 == IF ~DictHas(heading2.children, subheading_code)
                  THEN SetChild(heading2, subheading_code, InnerNode(<<>>, None))
                  ELSE heading2
      subheading3 == DictGet(heading3.children, subheading_code)
      subheadingL == SetChild(subheading3, full_code, LeafNode(desc, row))
      headingL == SetChild(heading3, subheading_code, subheadingL)
  IN IF SkipsRow(row) THEN hs_tree
     ELSE IF sub = <<>> /\ item = <<>>
     THEN DictPut(tree1, chapter_code, chapterTD)
     ELSE IF item = <<>>
     THEN DictPut(tree1, chapter_code, SetChild(chapter2, heading_code, headingT))
     ELSE DictPut(tree1, chapter_code, SetChild(chapter2, heading_code, headingL))

\* one iteration of the row loop of build_tree
build_tree_row(hs_tree, chapter_notes, row) ==
  LET header == row.HEADER
      sub == row.SUB
      item == row.ITEM
      desc == Strip(Str(row.DESCRIPTION))
      chapter_code == Take(header, 2)
      heading_code == header
      subheading_code == header \o sub
      full_code == header \o sub \o item
      \* Chapter node (level 1)
      tree1 == IF ~DictHas(hs_tree, chapter_code)
               THEN DictPut(hs_tree, chapter_code,
                            InnerNode(<<>>, DictGetOr(chapter_notes, chapter_code, None)))
               ELSE hs_tree
      chapter1 == DictGet(tree1, chapter_code)
      \* heading title row
      chapterT == IF ~DictHas(chapter1.children, heading_code)
                  THEN SetChild(chapter1, heading_code, InnerNode(desc, None))
                  ELSE SetChild(chapter1, heading_code,
                         [DictGet(chapter1.children, heading_code) EXCEPT !.description = desc])
      chapterTD == IF Len(desc) < Len(NodeGet(chapterT, "description", Z100))
                   THEN [chapterT EXCEPT !.description = desc]
                   ELSE chapterT
      \* other rows: ensure the heading node
      chapter2 == IF ~DictHas(chapter1.children, heading_code)
                  THEN SetChild(chapter1, heading_code, InnerNode(<<>>, None))
                  ELSE chapter1
      heading2 == DictGet(chapter2.children, heading_code)
      \* subheading title row
      headingT == IF ~DictHas(heading2.children, subheading_code)
                  THEN SetChild(heading2, subheading_code, InnerNode(desc, None))
                  ELSE SetChild(heading2, subheading_code,
                         [DictGet(heading2.children, subheading_code) EXCEPT !.description = desc])
      \* leaf rows: ensure the subheading node
      heading3 == IF ~DictHas(heading2.children, subheading_code)
                  THEN SetChild(heading2, subheading_code, InnerNode(<<>>, None))
                  ELSE heading2
      subheading3 == DictGet(heading3.children, subheading_code)
      subheadingL == SetChild(subheading3, full_code, LeafNode(desc, row))
      headingL == SetChild(heading3, subheading_code, subheadingL)
  IN IF SkipsRow(row) THEN hs_tree
     ELSE IF sub = <<>> /\ item = <<>>
     THEN DictPut(tree1, chapter_code, chapterTD)
     ELSE IF item = <<>>
     THEN DictPut(tree1, chapter_code, SetChild(chapter2, heading_code, headingT))
     ELSE DictPut(tree1, chapter_code, SetChild(chapter2, heading_code, headingL))

(* ------------------- 2_transverse_hscode_tree.py ----------------------- *)

Queries == {<<"h", "o", "r", "s", "e">>, <<"h", "e", "n">>}

Justifications == {<<"o", "k">>}

Confidences == {0, 100}

\* a code no row of the pool produces
BogusCode == <<"9", "9">>

RECURSIVE TreeCodes(_)
TreeCodes(children) ==
  DictKeys(children) \cup UNION {TreeCodes(children[n].v.children) : n \in DOMAIN children}

\* the parsed responses the oracle may give over a tree
Responses(tree) ==
  [best_choice_code : TreeCodes(tree) \cup {BogusCode},
   justification : Justifications,
   confidence_score : Confidences]

\* the responses the oracle gives the first and the second of two concurrent
\* calls: the same codes, another justification and another confidence
FirstResponses(tree) ==
  [best_choice_code : TreeCodes(tree) \cup {BogusCode},
   justification : {<<"o", "k">>},
   confidence_score : {0}]

SecondResponses(tree) ==
  [best_choice_code : TreeCodes(tree) \cup {BogusCode},
   justification : {<<"n", "o">>},
   confidence_score : {100}]

\* the products of the two concurrent calls
FirstQuery == <<"h", "o", "r", "s", "e">>

SecondQuery == <<"h", "e", "n">>

NoResult == [pending |-> TRUE]

StartStr == <<"S", "t", "a", "r", "t">>

PathSeparator == <<" ", ">", " ">>

NoneStr == <<"N", "o", "n", "e">>

InvalidChoiceError == [error |-> "LLM hallucinated an invalid code."]

\* the state of the classifier program before HSCClassifier is constructed
CallOff ==
  [pc |-> "off", product_description |-> <<>>, classification_path |-> <<>>,
   current_node_dict |-> [children |-> <<>>], current_path_str |-> <<>>,
   prompt |-> NoResult, response |-> NoResult, attempts |-> 0, outcome |-> "none",
   result |-> NoResult, exception |-> "none"]

\* the locals of classify_product before its loop
classify_product_init(c, tree, product_description) ==
  [c EXCEPT !.pc = "loop",
            !.product_description = product_description,
            !.classification_path = <<>>,
            !.current_node_dict = [children |-> tree],
            !.current_path_str = StartStr,
            !.prompt = NoResult, !.response = NoResult,
            !.attempts = 0, !.outcome = "none",
            !.result = NoResult, !.exception = "none"]

\* the while condition: current_node_dict.get("children") is a non-empty dict
HasChildren(node) == NodeGet(node, "children", <<>>) # <<>>

\* the choice list, in the insertion order of the children
Choices(node) ==
  [n \in DOMAIN node.children |->
     [code |-> node.children[n].k,
      description |-> node.children[n].v.description,
      lookahead |-> Len(NodeGet(node.children[n].v, "children", <<>>))]]

\* the request sent to the oracle
BuildPrompt(c) ==
  LET notes == NodeGet(c.current_node_dict, "notes", None)
  IN [product_description |-> c.product_description,
      current_path_str |-> c.current_path_str,
      parent_notes |-> IF notes = None \/ notes = <<>> THEN NoneStr ELSE notes,
      choices |-> Choices(c.current_node_dict)]

\* classify_product_finish that reports the code of the first step
classify_product_finish_first(c) ==
  IF c.classification_path = <<>>
  THEN [c EXCEPT !.pc = "raised", !.exception = "IndexError"]
  ELSE [c EXCEPT !.pc = "returned",
          !.result =
            [product_description |-> c.product_description,
             full_path |-> c.classification_path,
             final_hs_code |-> c.classification_path[1].code,
             tariff_details |->
               [import_rate |-> NodeGet(c.current_node_dict, "import_rate", None),
                export_rate |-> NodeGet(c.current_node_dict, "export_rate", None),
                sst_rate |-> NodeGet(c.current_node_dict, "sst_rate", None)]]]

\* final_result of classify_product; classification_path[-1] of an empty
\* list raises IndexError
classify_product_finish(c) ==
  IF c.classification_path = <<>>
  THEN [c EXCEPT !.pc = "raised", !.exception = "IndexError"]
  ELSE [c EXCEPT !.pc = "returned",
          !.result =
            [product_description |-> c.product_description,
             full_path |-> c.classification_path,
             final_hs_code |-> c.classification_path[Len(c.classification_path)].code,
             tariff_details |->
               [import_rate |-> NodeGet(c.current_node_dict, "import_rate", None),
                export_rate |-> NodeGet(c.current_node_dict, "export_rate", None),
                sst_rate |-> NodeGet(c.current_node_dict, "sst_rate", None)]]]

\* the head of one loop iteration: leave the loop, or build the prompt
classify_product_loop(c) ==
  IF HasChildren(c.current_node_dict)
  THEN [c EXCEPT !.pc = "call", !.prompt = BuildPrompt(c), !.attempts = 0,
                 !.outcome = "none"]
  ELSE classify_product_finish(c)

\* chosen_code in current_node_dict["children"]
IsValidChoice(chosen_code, node) == DictHas(node.children, chosen_code)

\* classify_product_validate that appends the step but stays on the node
classify_product_validate_stay(c) ==
  LET chosen_code == c.response.best_choice_code
  IN IF ~IsValidChoice(chosen_code, c.current_node_dict)
     THEN [c EXCEPT !.pc = "returned", !.result = InvalidChoiceError]
     ELSE LET chosen_node_data == DictGet(c.current_node_dict.children, chosen_code)
              path == Append(c.classification_path,
                        [code |-> chosen_code,
                         description |-> chosen_node_data.description,
                         justification |-> c.response.justification,
                         confidence |-> c.response.confidence_score])
          IN [c EXCEPT !.pc = "loop",
                       !.classification_path = path,
                       !.current_path_str =
                          Join([n \in DOMAIN path |-> path[n].description], PathSeparator)]

\* classify_product_validate that asks the oracle again on an invalid code
classify_product_validate_retry(c) ==
  LET chosen_code == c.response.best_choice_code
  IN IF ~IsValidChoice(chosen_code, c.current_node_dict)
     THEN [c EXCEPT !.pc = "call"]
     ELSE LET chosen_node_data == DictGet(c.current_node_dict.children, chosen_code)
              path == Append(c.classification_path,
                        [code |-> chosen_code,
                         description |-> chosen_node_data.description,
                         justification |-> c.response.justification,
                         confidence |-> c.response.confidence_score])
          IN [c EXCEPT !.pc = "loop",
                       !.classification_path = path,
                       !.current_node_dict = chosen_node_data,
                       !.current_path_str =
                          Join([n \in DOMAIN path |-> path[n].description], PathSeparator)]

\* classify_product_validate that returns the partial path with the error
classify_product_validate_with_path(c) ==
  LET chosen_code == c.response.best_choice_code
  IN IF ~IsValidChoice(chosen_code, c.current_node_dict)
     THEN [c EXCEPT !.pc = "returned",
                    !.result = [error |-> "LLM hallucinated an invalid code.",
                                full_path |-> c.classification_path]]
     ELSE LET chosen_node_data == DictGet(c.current_node_dict.children, chosen_code)
              path == Append(c.classification_path,
                        [code |-> chosen_code,
                         description |-> chosen_node_data.description,
                         justification |-> c.response.justification,
                         confidence |-> c.response.confidence_score])
          IN [c EXCEPT !.pc = "loop",
                       !.classification_path = path,
                       !.current_node_dict = chosen_node_data,
                       !.current_path_str =
                          Join([n \in DOMAIN path |-> path[n].description], PathSeparator)]

\* classify_product_validate that joins the breadcrumb before the new step
\* is appended
classify_product_validate_stale_crumb(c) ==
  LET chosen_code == c.response.best_choice_code
  IN IF ~IsValidChoice(chosen_code, c.current_node_dict)
     THEN [c EXCEPT !.pc = "returned", !.result = InvalidChoiceError]
     ELSE LET chosen_node_data == DictGet(c.current_node_dict.children, chosen_code)
              path == Append(c.classification_path,
                        [code |-> chosen_code,
                         description |-> chosen_node_data.description,
                         justification |-> c.response.justification,
                         confidence |-> c.response.confidence_score])
          IN [c EXCEPT !.pc = "loop",
                       !.classification_path = path,
                       !.current_node_dict = chosen_node_data,
                       !.current_path_str =
                          Join([n \in DOMAIN c.classification_path |->
                                  c.classification_path[n].description], PathSeparator)]

\* classify_product_validate that treats a choice of low confidence as an
\* invalid one
classify_product_validate_lowconf(c) ==
  LET chosen_code == c.response.best_choice_code
  IN IF ~IsValidChoice(chosen_code, c.current_node_dict) \/ c.response.confidence_score < 50
     THEN [c EXCEPT !.pc = "returned", !.result = InvalidChoiceError]
     ELSE LET chosen_node_data == DictGet(c.current_node_dict.children, chosen_code)
              path == Append(c.classification_path,
                        [code |-> chosen_code,
                         description |-> chosen_node_data.description,
                         justification |-> c.response.justification,
                         confidence |-> c.response.confidence_score])
          IN [c EXCEPT !.pc = "loop",
                       !.classification_path = path,
                       !.current_node_dict = chosen_node_data,
                       !.current_path_str =
                          Join([n \in DOMAIN path |-> path[n].description], PathSeparator)]

\* the rest of one loop iteration, once _get_llm_choice has returned
classify_product_validate(c) ==
  LET chosen_code == c.response.best_choice_code
  IN IF ~IsValidChoice(chosen_code, c.current_node_dict)
     THEN [c EXCEPT !.pc = "returned", !.result = InvalidChoiceError]
     ELSE LET chosen_node_data == DictGet(c.current_node_dict.children, chosen_code)
              path == Append(c.classification_path,
                        [code |-> chosen_code,
                         description |-> chosen_node_data.description,
                         justification |-> c.response.justification,
                         confidence |-> c.response.confidence_score])
          IN [c EXCEPT !.pc = "loop",
                       !.classification_path = path,
                       !.current_node_dict = chosen_node_data,
                       !.current_path_str =
                          Join([n \in DOMAIN path |-> path[n].description], PathSeparator)]

\* one attempt of _get_llm_choice is made: generate_content is called
get_llm_choice_attempt(c) ==
  [c EXCEPT !.pc = "wait", !.attempts = Min(@ + 1, MaxAttempts), !.outcome = "pending"]

\* tenacity's retry(wait=...) has no stop and retries on every exception
\* raised inside the wrapped function
RetriesOn(kind) == kind \in {"transient", "malformed"}

\* get_llm_choice_raise that gives up on a transient failure and lets the
\* exception reach classify_product
get_llm_choice_raise_giveup(c, kind) ==
  IF kind = "malformed"
  THEN [c EXCEPT !.pc = "call", !.outcome = kind]
  ELSE [c EXCEPT !.pc = "raised", !.outcome = kind, !.exception = kind]

\* the attempt raised: generate_content failed ("transient") or json.loads
\* rejected response.text ("malformed")
get_llm_choice_raise(c, kind) ==
  IF RetriesOn(kind)
  THEN [c EXCEPT !.pc = "call", !.outcome = kind]
  ELSE [c EXCEPT !.pc = "raised", !.outcome = kind, !.exception = kind]

\* the attempt returned json.loads(response.text)
get_llm_choice_return(c, response) ==
  [c EXCEPT !.pc = "validate", !.outcome = "response", !.response = response]

\* json.dump and json.load of a dict of str keys, str values and None: the
\* keys keep their insertion order and every value survives unchanged
json_dump(value) == value

json_load(content) == content

(* ------------------------------- state --------------------------------- *)
\* a file of the data directory: absent, or present with its content
NoFile == [exists |-> FALSE, content |-> <<>>]

File(content) == [exists |-> TRUE, content |-> content]

VARIABLES
  csv,           \* the input table as pd.read_csv parses it
  treeFile,      \* OUTPUT_TREE_JSON: NoFile or the saved tree
  notesFile,     \* OUTPUT_NOTES_JSON: NoFile or the saved notes
  bpc,           \* position of the build script
  df,            \* build_tree: the frame after fillna('')
  row_idx,       \* build_tree: index of the next row of the loop
  chapter_notes, \* build_tree: the notes parse_notes returned
  hs_tree,       \* build_tree: the tree under construction
  self_hs_tree,  \* HSCClassifier.hs_tree
  call,          \* the classifier program: position and locals of classify_product
  call2          \* a second classify_product call, on another thread

buildVars == <<csv, treeFile, notesFile, bpc, df, row_idx, chapter_notes, hs_tree>>

vars == <<csv, treeFile, notesFile, bpc, df, row_idx, chapter_notes, hs_tree,
          self_hs_tree, call, call2>>

InitWith(tables) ==
  /\ csv \in tables
  /\ treeFile = NoFile
  /\ notesFile = NoFile
  /\ bpc = "start"
  /\ df = <<>>
  /\ row_idx = 1
  /\ chapter_notes = <<>>
  /\ hs_tree = <<>>
  /\ self_hs_tree = <<>>
  /\ call = CallOff
  /\ call2 = CallOff

\* build_tree up to the row loop, when the tree file is absent
build_tree_start ==
  /\ bpc = "start"
  /\ ~treeFile.exists
  /\ df' = read_csv(csv)
  /\ chapter_notes' = parse_notes(df')
  /\ notesFile' = File(chapter_notes')
  /\ hs_tree' = <<>>
  /\ row_idx' = 1
  /\ bpc' = "rows"
  /\ UNCHANGED <<csv, treeFile, self_hs_tree, call, call2>>

\* build_tree that has no check for the tree file and builds again
build_tree_skip_rebuild ==
  /\ bpc \in {"done", "skipped"}
  /\ treeFile.exists
  /\ df' = read_csv(csv)
  /\ chapter_notes' = parse_notes(df')
  /\ notesFile' = File(chapter_notes')
  /\ hs_tree' = <<>>
  /\ row_idx' = 1
  /\ bpc' = "rows"
  /\ UNCHANGED <<csv, treeFile, self_hs_tree, call, call2>>

\* build_tree run again once the tree file exists: it returns at once
build_tree_skip ==
  /\ bpc \in {"done", "skipped"}
  /\ treeFile.exists
  /\ bpc' = "skipped"
  /\ UNCHANGED <<csv, treeFile, notesFile, df, row_idx, chapter_notes, hs_tree,
                 self_hs_tree, call, call2>>

build_tree_loop ==
  /\ bpc = "rows"
  /\ row_idx <= Len(df)
  /\ hs_tree' = build_tree_row(hs_tree, chapter_notes, df[row_idx])
  /\ row_idx' = row_idx + 1
  /\ UNCHANGED <<csv, treeFile, notesFile, bpc, df, chapter_notes, self_hs_tree, call, call2>>

build_tree_save ==
  /\ bpc = "rows"
  /\ row_idx > Len(df)
  /\ treeFile' = File(json_dump(hs_tree))
  /\ bpc' = "done"
  /\ UNCHANGED <<csv, notesFile, df, row_idx, chapter_notes, hs_tree, self_hs_tree, call, call2>>

\* HSCClassifier(HS_TREE_PATH) while the tree file is missing
classifier_init_missing ==
  /\ call.pc = "off"
  /\ ~treeFile.exists
  /\ call' = [call EXCEPT !.pc = "raised", !.exception = "FileNotFoundError"]
  /\ UNCHANGED <<buildVars, self_hs_tree, call2>>

\* HSCClassifier(HS_TREE_PATH)
classifier_init ==
  /\ call.pc = "off"
  /\ treeFile.exists
  /\ self_hs_tree' = json_load(treeFile.content)
  /\ call' = [call EXCEPT !.pc = "idle"]
  /\ UNCHANGED <<buildVars, call2>>

\* classifier.classify_product(product): the first call, or the next one
\* after a call returned
classify_product_start ==
  /\ call.pc \in {"idle", "returned"}
  /\ \E q \in Queries : call' = classify_product_init(call, self_hs_tree, q)
  /\ UNCHANGED <<buildVars, self_hs_tree, call2>>

classify_product_step ==
  /\ call.pc = "loop"
  /\ call' = classify_product_loop(call)
  /\ UNCHANGED <<buildVars, self_hs_tree, call2>>

oracle_attempt ==
  /\ call.pc = "call"
  /\ call' = get_llm_choice_attempt(call)
  /\ UNCHANGED <<buildVars, self_hs_tree, call2>>

oracle_transient_failure ==
  /\ call.pc = "wait"
  /\ call' = get_llm_choice_raise(call, "transient")
  /\ UNCHANGED <<buildVars, self_hs_tree, call2>>

oracle_malformed_response ==
  /\ call.pc = "wait"
  /\ call' = get_llm_choice_raise(call, "malformed")
  /\ UNCHANGED <<buildVars, self_hs_tree, call2>>

oracle_response ==
  /\ call.pc = "wait"
  /\ \E r \in Responses(self_hs_tree) : call' = get_llm_choice_return(call, r)
  /\ UNCHANGED <<buildVars, self_hs_tree, call2>>

\* classify_product_choice that rebinds self.hs_tree to the children it
\* descended into
classify_product_choice_rebind ==
  /\ call.pc = "validate"
  /\ call' = classify_product_validate(call)
  /\ self_hs_tree' = call'.current_node_dict.children
  /\ UNCHANGED <<buildVars, call2>>

classify_product_choice ==
  /\ call.pc = "validate"
  /\ call' = classify_product_validate(call)
  /\ UNCHANGED <<buildVars, self_hs_tree, call2>>

\* the input file is replaced by another table
edit_table ==
  /\ csv' \in RebuildTables \ {csv}
  /\ UNCHANGED <<treeFile, notesFile, bpc, df, row_idx, chapter_notes, hs_tree,
                 self_hs_tree, call, call2>>

(* two classify_product calls of one classifier, on two threads *)
classify_product_start_first ==
  /\ call.pc = "idle"
  /\ call' = classify_product_init(call, self_hs_tree, FirstQuery)
  /\ UNCHANGED <<buildVars, self_hs_tree, call2>>

oracle_response_first ==
  /\ call.pc = "wait"
  /\ \E r \in FirstResponses(self_hs_tree) : call' = get_llm_choice_return(call, r)
  /\ UNCHANGED <<buildVars, self_hs_tree, call2>>

classify_product_start_second ==
  /\ call.pc # "off"
  /\ call2.pc = "off"
  /\ call2' = classify_product_init(call2, self_hs_tree, SecondQuery)
  /\ UNCHANGED <<buildVars, self_hs_tree, call>>

classify_product_step_second ==
  /\ call2.pc = "loop"
  /\ call2' = classify_product_loop(call2)
  /\ UNCHANGED <<buildVars, self_hs_tree, call>>

oracle_attempt_second ==
  /\ call2.pc = "call"
  /\ call2' = get_llm_choice_attempt(call2)
  /\ UNCHANGED <<buildVars, self_hs_tree, call>>

oracle_transient_failure_second ==
  /\ call2.pc = "wait"
  /\ call2' = get_llm_choice_raise(call2, "transient")
  /\ UNCHANGED <<buildVars, self_hs_tree, call>>

oracle_malformed_response_second ==
  /\ call2.pc = "wait"
  /\ call2' = get_llm_choice_raise(call2, "malformed")
  /\ UNCHANGED <<buildVars, self_hs_tree, call>>

oracle_response_second ==
  /\ call2.pc = "wait"
  /\ \E r \in SecondResponses(self_hs_tree) : call2' = get_llm_choice_return(call2, r)
  /\ UNCHANGED <<buildVars, self_hs_tree, call>>

\* classify_product_choice_second with the current node kept on the
\* classifier object, where the other call reads it
classify_product_choice_second_shared ==
  /\ call2.pc = "validate"
  /\ call2' = classify_product_validate(call2)
  /\ call' = IF call.pc \in {"loop", "call", "wait", "validate"}
             THEN [call EXCEPT !.current_node_dict = call2'.current_node_dict]
             ELSE call
  /\ UNCHANGED <<buildVars, self_hs_tree>>

classify_product_choice_second ==
  /\ call2.pc = "validate"
  /\ call2' = classify_product_validate(call2)
  /\ UNCHANGED <<buildVars, self_hs_tree, call>>

NextBuild ==
  \/ build_tree_start
  \/ build_tree_skip
  \/ build_tree_loop
  \/ build_tree_save

Next ==
  \/ build_tree_start
  \/ build_tree_skip
  \/ build_tree_loop
  \/ build_tree_save
  \/ classifier_init_missing
  \/ classifier_init
  \/ classify_product_start
  \/ classify_product_step
  \/ oracle_attempt
  \/ oracle_transient_failure
  \/ oracle_malformed_response
  \/ oracle_response
  \/ classify_product_choice

\* the build script, run again and again while the input file changes
NextRebuild ==
  \/ build_tree_start
  \/ build_tree_skip
  \/ build_tree_loop
  \/ build_tree_save
  \/ edit_table

\* the build, then one classifier and two concurrent classify_product calls
NextConcurrent ==
  \/ build_tree_start
  \/ build_tree_loop
  \/ build_tree_save
  \/ classifier_init
  \/ classify_product_start_first
  \/ classify_product_step
  \/ oracle_attempt
  \/ oracle_transient_failure
  \/ oracle_malformed_response
  \/ oracle_response_first
  \/ classify_product_choice
  \/ classify_product_start_second
  \/ classify_product_step_second
  \/ oracle_attempt_second
  \/ oracle_transient_failure_second
  \/ oracle_malformed_response_second
  \/ oracle_response_second
  \/ classify_product_choice_second

Init == InitWith(PipelineTables)

InitBuild == InitWith(Tables)

\* the whole pipeline: the build script and the classifier program
Spec == Init /\ [][Next]_vars

\* the build script alone, on longer tables
SpecBuild == InitBuild /\ [][NextBuild]_vars

InitConcurrent == InitWith(ConcurrentTables)

\* two concurrent calls over the tree one build has saved
SpecConcurrent == InitConcurrent /\ [][NextConcurrent]_vars

InitRebuild == InitWith(RebuildTables)

\* the build script run repeatedly over an input file that is replaced
SpecRebuild == InitRebuild /\ [][NextRebuild]_vars

\* the pipeline with the progress the programs themselves guarantee: each
\* program takes its next step, and every oracle attempt ends (it raises or
\* it returns); which of the two is the oracle's choice
FairSpec ==
  /\ Spec
  /\ WF_vars(NextBuild)
  /\ WF_vars(classifier_init)
  /\ WF_vars(classify_product_step)
  /\ WF_vars(oracle_attempt)
  /\ WF_vars(oracle_transient_failure \/ oracle_malformed_response \/ oracle_response)
  /\ WF_vars(classify_product_choice)

(* ============================ properties =============================== *)
RECURSIVE Depth(_)
\* the number of levels below a children dict
Depth(children) ==
  IF children = <<>> THEN 0
  ELSE LET ds == {Depth(children[n].v.children) : n \in DOMAIN children}
       IN 1 + CHOOSE d \in ds : \A e \in ds : e <= d

RECURSIVE IsChain(_, _, _)
\* codes is a chain of child keys from the children dict down to node
IsChain(children, codes, node) ==
  IF codes = <<>> THEN node.children = children
  ELSE /\ Head(codes) \in DictKeys(children)
       /\ IF Len(codes) = 1
          THEN node = DictGet(children, Head(codes))
          ELSE IsChain(DictGet(children, Head(codes)).children, Tail(codes), node)

PathCodes(path) == [n \in DOMAIN path |-> path[n].code]

\* a classify_product call has ended (returned or raised)
CallEnded == call.pc \in {"returned", "raised"} /\ call.exception # "FileNotFoundError"

ReturnedInvalidChoice == call.pc = "returned" /\ "error" \in DOMAIN call.result

ReturnedResult == call.pc = "returned" /\ "final_hs_code" \in DOMAIN call.result

\* the code of the response under validation is not a child of the current node
ChoiceIsInvalid ==
  call.response.best_choice_code \notin DictKeys(call.current_node_dict.children)

(* ---- C1 ---- *)
\* C1 as stated: every classify_product call that entered its loop ends, at a
\* node with empty children after no more descend steps than the depth of
\* the tree, or with the invalid-choice error.
C1_Original ==
  (call.pc = "loop") ~>
     \/ /\ CallEnded
        /\ ~ReturnedInvalidChoice
        /\ call.current_node_dict.children = <<>>
        /\ Len(call.classification_path) <= Depth(self_hs_tree)
     \/ ReturnedInvalidChoice

\* C1 amended: a classify_product call never takes more descend steps than
\* the depth of the tree, and when it ends it is at a node with empty
\* children or it returned the invalid-choice error (that it ends is not
\* guaranteed: the oracle call is retried without bound).
C1_StepsBounded ==
  /\ Len(call.classification_path) <= Depth(self_hs_tree)
  /\ CallEnded =>
       \/ ReturnedInvalidChoice
       \/ call.current_node_dict.children = <<>>

\* a call that ended at the bottom of a four-level tree after retried attempts
C1_Witness ==
  /\ ReturnedResult
  /\ Depth(self_hs_tree) = 4
  /\ Len(call.classification_path) = 4
  /\ call.attempts = MaxAttempts

(* ---- C2 ---- *)
\* C2: validating a response whose code is not a child of the current node
\* ends the call at once with the invalid-choice error: no step is appended,
\* the current node stays, the oracle is not attempted again; and a call that
\* returned changes nothing more until the next call starts afresh.
C2_AbortAtOnce ==
  [][/\ (call.pc = "validate" /\ ChoiceIsInvalid /\ call' # call) =>
          /\ call'.pc = "returned"
          /\ call'.result = InvalidChoiceError
          /\ call'.classification_path = call.classification_path
          /\ call'.current_node_dict = call.current_node_dict
          /\ call'.attempts = call.attempts
     /\ (call.pc = "returned" /\ call' # call) =>
          /\ call'.pc = "loop"
          /\ call'.classification_path = <<>>
          /\ call'.attempts = 0]_vars

\* an abort below the root, on a node that has children to fall back on
C2_Witness ==
  /\ ReturnedInvalidChoice
  /\ Len(call.classification_path) >= 1
  /\ call.current_node_dict.children # <<>>
  /\ ChoiceIsInvalid

(* ---- C3 ---- *)
\* C3 as stated: the value returned on an invalid choice carries the error
\* and a path whose length is the number of validated steps.
C3_Original ==
  ReturnedInvalidChoice =>
    /\ "full_path" \in DOMAIN call.result
    /\ Len(call.result.full_path) = Len(call.classification_path)

\* C3 amended: the value returned on an invalid choice is the error object
\* alone, without a path; the path accumulated up to the abort is the chain
\* of the validated choices from the root to the node that rejected the code.
C3_ErrorOnly ==
  ReturnedInvalidChoice =>
    /\ call.result = InvalidChoiceError
    /\ IsChain(self_hs_tree, PathCodes(call.classification_path), call.current_node_dict)
    /\ ChoiceIsInvalid

\* an abort after two validated steps
C3_Witness ==
  /\ ReturnedInvalidChoice
  /\ Len(call.classification_path) = 2

(* ---- C4 ---- *)
\* C4: a classify_product call on a tree without groups ends by returning an
\* error object, and the oracle is never attempted.
C4_Claim ==
  (CallEnded /\ self_hs_tree = <<>>) =>
    /\ call.pc = "returned"
    /\ DOMAIN call.result = {"error"}
    /\ call.attempts = 0

(* ---- C5 ---- *)
RECURSIVE ChoseFirst(_, _)
\* every code of the chain is the first key of the children it was chosen from
ChoseFirst(children, codes) ==
  \/ codes = <<>>
  \/ /\ children # <<>>
     /\ Head(codes) = children[1].k
     /\ ChoseFirst(children[1].v.children, Tail(codes))

\* C5: on the tree built from the example table, a call whose every answer
\* was the first listed choice ends with final_hs_code "01012110" and a path
\* of length 3.
C5_Claim ==
  (/\ csv = ExampleTable
   /\ CallEnded
   /\ ~ReturnedInvalidChoice
   /\ ChoseFirst(self_hs_tree, PathCodes(call.classification_path))) =>
    /\ ReturnedResult
    /\ call.result.final_hs_code = <<"0", "1", "0", "1", "2", "1", "1", "0">>
    /\ Len(call.result.full_path) = 3

(* ---- C6 ---- *)
\* a row build_tree turns into a leaf
IsLeafRow(row) == ~SkipsRow(row) /\ row.ITEM # <<>>

SameCode(r1, r2) ==
  r1.HEADER = r2.HEADER /\ r1.SUB = r2.SUB /\ r1.ITEM = r2.ITEM

\* the index of the last leaf row of df with the code of row n
LastLeafRow(n) ==
  CHOOSE m \in DOMAIN df :
    /\ IsLeafRow(df[m]) /\ SameCode(df[m], df[n])
    /\ \A j \in DOMAIN df : (IsLeafRow(df[j]) /\ SameCode(df[j], df[n])) => j <= m

LeafCodes(row) ==
  <<Take(row.HEADER, 2), row.HEADER, row.HEADER \o row.SUB,
    row.HEADER \o row.SUB \o row.ITEM>>

\* the saved tree holds the leaf of row n, with the given description
LeafStored(n, description) ==
  LET last == df[LastLeafRow(n)]
  IN IsChain(treeFile.content, LeafCodes(df[n]),
             [description |-> description,
              import_rate |-> last.IMPORT_RATE,
              export_rate |-> last.EKSPORT_RATE,
              sst_rate |-> last.SST,
              children |-> <<>>])

\* C6 as stated: after build, every leaf row's node is found under
\* HEADER[:2], HEADER, HEADER+SUB, HEADER+SUB+ITEM, has no children and holds
\* the description and the three rates of the last row of that code, verbatim.
C6_Original ==
  bpc = "done" =>
    \A n \in DOMAIN df :
      IsLeafRow(df[n]) => LeafStored(n, df[LastLeafRow(n)].DESCRIPTION)

\* C6 amended: the same, the description being that of the last row of the
\* code with its leading and trailing whitespace removed.
C6_LeafStored ==
  bpc = "done" =>
    \A n \in DOMAIN df :
      IsLeafRow(df[n]) => LeafStored(n, Strip(df[LastLeafRow(n)].DESCRIPTION))

\* a built table where a later row of the same code replaced a leaf, its
\* description being padded
C6_Witness ==
  /\ bpc = "done"
  /\ \E m, n \in DOMAIN df :
       /\ m < n
       /\ IsLeafRow(df[m]) /\ IsLeafRow(df[n]) /\ SameCode(df[m], df[n])
       /\ n = LastLeafRow(m)
       /\ df[n].IMPORT_RATE # df[m].IMPORT_RATE
       /\ Strip(df[n].DESCRIPTION) # df[n].DESCRIPTION

(* ---- C7 ---- *)
IsStrictExtension(code, parent) ==
  Len(code) > Len(parent) /\ SubSeq(code, 1, Len(parent)) = parent

RECURSIVE WellKeyed(_, _)
\* below a node of code parent: every key strictly extends the code of its
\* parent and no two siblings share a key
WellKeyed(children, parent) ==
  \A n \in DOMAIN children :
    /\ IsStrictExtension(children[n].k, parent)
    /\ \A m \in DOMAIN children : children[m].k = children[n].k => m = n
    /\ WellKeyed(children[n].v.children, children[n].k)

\* C7: after any prefix of the rows, every node's code strictly extends its
\* parent's code and siblings have distinct codes.
C7_Claim == WellKeyed(hs_tree, <<>>)

(* ---- C9 ---- *)
IsMarkerRow(row) ==
  Contains(Strip(row.DESCRIPTION), ChapterNotesMarker) /\ Len(Strip(row.HEADER)) >= 2

RECURSIVE BlockEnd(_)
\* the index of the last row of the block whose rows n+1.. have no HEADER
BlockEnd(n) ==
  IF n + 1 \in DOMAIN df /\ df[n + 1].HEADER = <<>> THEN BlockEnd(n + 1) ELSE n

\* C9: the note kept for a group is, for the last marker row of that group,
\* the marker row's description followed by the descriptions of the rows
\* without HEADER that follow it, one line each.
C9_Claim ==
  bpc # "start" =>
    \A n \in DOMAIN df :
      (/\ IsMarkerRow(df[n])
       /\ \A m \in DOMAIN df :
            (IsMarkerRow(df[m]) /\ Take(Strip(df[m].HEADER), 2) = Take(Strip(df[n].HEADER), 2))
               => m <= n) =>
        /\ DictHas(chapter_notes, Take(Strip(df[n].HEADER), 2))
        /\ DictGet(chapter_notes, Take(Strip(df[n].HEADER), 2)) =
             Join([j \in 1..(BlockEnd(n) - n + 1) |-> Strip(df[n + j - 1].DESCRIPTION)],
                  Newline)

(* ---- C10 ---- *)
\* C10: a further attempt of the oracle call is due only after an attempt
\* that failed transiently, never after a response that arrived malformed.
C10_Claim ==
  (call.pc = "call" /\ call.attempts >= 1) => call.outcome = "transient"

(* ---- C11 ---- *)
\* the responses a call has received: one per step of its path, and the
\* rejected one when it returned the invalid-choice error
AnswersOf(c) ==
  [n \in DOMAIN c.classification_path |->
     [best_choice_code |-> c.classification_path[n].code,
      justification |-> c.classification_path[n].justification,
      confidence_score |-> c.classification_path[n].confidence]]
  \o (IF c.pc = "returned" /\ "error" \in DOMAIN c.result THEN <<c.response>> ELSE <<>>)

RECURSIVE RunAlone(_, _)
\* classify_product run from the head of its loop on answers that arrive at
\* the first attempt, one per step: where it ends, or where it waits for
\* the next answer
RunAlone(c, answers) ==
  LET asked == classify_product_loop(c)
  IN IF asked.pc # "call" \/ answers = <<>> THEN asked
     ELSE LET chosen == classify_product_validate(
                          get_llm_choice_return(get_llm_choice_attempt(asked), Head(answers)))
          IN IF chosen.pc = "loop" THEN RunAlone(chosen, Tail(answers)) ELSE chosen

\* the outcome of a call as its caller sees it
Outcome(c) ==
  [pc |-> c.pc, result |-> c.result, exception |-> c.exception]

\* C11: a call that ended, whatever failed attempts came before its answers,
\* ends as the run without failures on the same tree, query and answers
\* does: same path, same final code and tariff details, or same error.
C11_FailuresInvisible ==
  CallEnded =>
    LET alone == RunAlone(classify_product_init(call, self_hs_tree, call.product_description),
                          AnswersOf(call))
    IN /\ Outcome(alone) = Outcome(call)
       /\ alone.classification_path = call.classification_path
       /\ alone.current_node_dict = call.current_node_dict

\* a call that returned a result after a retried attempt at its last step
C11_Witness ==
  /\ ReturnedResult
  /\ Len(call.classification_path) >= 2
  /\ call.attempts >= 2

(* ---- C12 ---- *)
\* C12: no step taken once the classifier is constructed (the steps of
\* classify_product calls that return a result, abort with the error or
\* raise, one call after another) changes the tree the classifier holds.
C12_TreeUntouched ==
  [][call.pc # "off" => self_hs_tree' = self_hs_tree]_vars

\* a call aborted with the invalid-choice error after a retried attempt, and
\* the non-empty tree is still the one that was loaded
C12_Witness ==
  /\ ReturnedInvalidChoice
  /\ call.attempts >= 2
  /\ self_hs_tree # <<>>
  /\ self_hs_tree = json_load(treeFile.content)

(* ---- C13 ---- *)
\* C13: once the tree file exists, no run of build_tree, whatever table the
\* input file holds by then, changes the tree file, reads or parses the
\* table, or writes the notes file.
C13_BuildOnce ==
  [][treeFile.exists =>
       UNCHANGED <<treeFile, notesFile, df, chapter_notes, hs_tree, row_idx>>]_vars

\* build_tree returned at once although the input file now holds another
\* table than the one the tree and notes files were built from
C13_Witness ==
  /\ bpc = "skipped"
  /\ read_csv(csv) # df
  /\ treeFile = File(json_dump(hs_tree))
  /\ hs_tree # <<>>
  /\ notesFile = File(chapter_notes)
  /\ parse_notes(read_csv(csv)) # chapter_notes

(* ---- C14 ---- *)
\* row n of the frame is a heading-title row of group g that build_tree processes
IsHeadingTitleOf(n, g) ==
  /\ ~SkipsRow(df[n])
  /\ df[n].SUB = <<>> /\ df[n].ITEM = <<>>
  /\ Take(df[n].HEADER, 2) = g

RowDesc(n) == Strip(Str(df[n].DESCRIPTION))

\* the first of the shortest heading-title rows of group g
FirstShortestTitle(g) ==
  CHOOSE n \in DOMAIN df :
    /\ IsHeadingTitleOf(n, g)
    /\ \A m \in DOMAIN df :
         IsHeadingTitleOf(m, g) =>
           \/ Len(RowDesc(n)) < Len(RowDesc(m))
           \/ Len(RowDesc(n)) = Len(RowDesc(m)) /\ n <= m

\* C14 as stated: after build, a group with at least one heading-title row
\* has the (non-empty) description of the first of its shortest
\* heading-title rows.
C14_Claim ==
  bpc = "done" =>
    \A k \in DOMAIN hs_tree :
      (\E n \in DOMAIN df : IsHeadingTitleOf(n, hs_tree[k].k)) =>
        /\ hs_tree[k].v.description = RowDesc(FirstShortestTitle(hs_tree[k].k))
        /\ hs_tree[k].v.description # <<>>

(* ---- C15 ---- *)
RECURSIVE NodeAt(_, _)
\* the node a non-empty chain of child keys leads to
NodeAt(children, codes) ==
  IF Len(codes) = 1 THEN DictGet(children, Head(codes))
  ELSE NodeAt(DictGet(children, Head(codes)).children, Tail(codes))

\* a classify_product call is running or has ended
InCall(c) ==
  c.pc \in {"loop", "call", "wait", "validate", "returned", "raised"}
  /\ c.exception # "FileNotFoundError"

\* C15: at every point of a call the codes of the path are a chain of child
\* keys from the root that ends at the current node (the root wrapper when
\* the path is empty), every step carries the description of the node it
\* names, and the breadcrumb is "Start" for the empty path and the step
\* descriptions joined by the separator otherwise.
C15_PathIsChain ==
  InCall(call) =>
    LET path == call.classification_path
        codes == PathCodes(path)
    IN /\ IsChain(self_hs_tree, codes, call.current_node_dict)
       /\ \A n \in DOMAIN path :
            path[n].description = NodeAt(self_hs_tree, SubSeq(codes, 1, n)).description
       /\ call.current_path_str =
            IF path = <<>> THEN StartStr
            ELSE Join([n \in DOMAIN path |-> path[n].description], PathSeparator)

\* a call two levels down, on a node with a description, about to validate
\* the next answer
C15_Witness ==
  /\ call.pc = "validate"
  /\ Len(call.classification_path) >= 2
  /\ call.classification_path[2].description # <<>>
  /\ call.current_path_str # StartStr

(* ---- C16 ---- *)
\* the tariff details the node of leaf row m carries after build
LeafRates(m) ==
  LET last == df[LastLeafRow(m)]
  IN [import_rate |-> last.IMPORT_RATE, export_rate |-> last.EKSPORT_RATE,
      sst_rate |-> last.SST]

NoRates == [import_rate |-> None, export_rate |-> None, sst_rate |-> None]

\* the call returned a result at the node of leaf row m
EndsAtLeafRow(m) ==
  /\ IsLeafRow(df[m])
  /\ PathCodes(call.classification_path) = LeafCodes(df[m])
  /\ call.result.final_hs_code = df[m].HEADER \o df[m].SUB \o df[m].ITEM
  /\ call.result.tariff_details = LeafRates(m)
  /\ \A f \in DOMAIN call.result.tariff_details : call.result.tariff_details[f] # None

\* the call returned a result at the childless node of title row m: a
\* heading-title row (2 steps) or a subheading-title row (3 steps)
EndsAtTitleRow(m) ==
  /\ ~SkipsRow(df[m])
  /\ df[m].ITEM = <<>>
  /\ Len(call.classification_path) = (IF df[m].SUB = <<>> THEN 2 ELSE 3)
  /\ PathCodes(call.classification_path) =
       SubSeq(LeafCodes(df[m]), 1, Len(call.classification_path))
  /\ call.result.final_hs_code = df[m].HEADER \o df[m].SUB
  /\ call.result.tariff_details = NoRates

RECURSIVE BuildRows(_, _, _)
\* the row loop of build_tree over the rows, from the given tree
BuildRows(tree, notes, rows) ==
  IF rows = <<>> THEN tree
  ELSE BuildRows(build_tree_row(tree, notes, Head(rows)), notes, Tail(rows))

\* the table with row n taken out and put back at position m
Move(rows, n, m) ==
  LET rest == SubSeq(rows, 1, n - 1) \o SubSeq(rows, n + 1, Len(rows))
  IN SubSeq(rest, 1, m - 1) \o <<rows[n]>> \o SubSeq(rest, m, Len(rest))

RECURSIVE SameNodes(_, _)
\* two children dicts hold the same keys and, under each key, nodes with the
\* same fields and the same nodes below, whatever the order of the keys
SameNodes(a, b) ==
  /\ DictKeys(a) = DictKeys(b)
  /\ \A k \in DictKeys(a) :
       LET x == DictGet(a, k)
           y == DictGet(b, k)
       IN /\ [x EXCEPT !.children = <<>>] = [y EXCEPT !.children = <<>>]
          /\ SameNodes(x.children, y.children)

\* the heading and subheading nodes (and the leaves below them) of two trees
\* are the same
SameHeadings(a, b) ==
  /\ DictKeys(a) = DictKeys(b)
  /\ \A g \in DictKeys(a) : SameNodes(DictGet(a, g).children, DictGet(b, g).children)

\* row n is a heading-title or subheading-title row that build_tree processes
IsTitleRow(rows, n) == ~SkipsRow(rows[n]) /\ rows[n].ITEM = <<>>

\* row j is a title row of the node of title row n with another description
OtherTitle(rows, n, j) ==
  /\ IsTitleRow(rows, j)
  /\ rows[j].HEADER = rows[n].HEADER /\ rows[j].SUB = rows[n].SUB
  /\ Strip(Str(rows[j].DESCRIPTION)) # Strip(Str(rows[n].DESCRIPTION))

\* moving title row n to position m takes it past no other title of its node
KeepsTitleOrder(rows, n, m) ==
  \A j \in DOMAIN rows :
    ((n < j /\ j <= m) \/ (m <= j /\ j < n)) => ~OtherTitle(rows, n, j)

\* C17: wherever a heading-title or subheading-title row stands among the
\* other rows of the table, before or after the rows below its node, the
\* build ends with the same heading and subheading nodes: same keys, same
\* descriptions, same children down to the leaves and their rates.
C17_TitleAnywhere ==
  bpc = "done" =>
    \A n \in DOMAIN df : \A m \in DOMAIN df :
      (IsTitleRow(df, n) /\ KeepsTitleOrder(df, n, m)) =>
        SameHeadings(BuildRows(<<>>, chapter_notes, Move(df, n, m)), hs_tree)

\* a build in which a heading-title row came after a leaf row of its heading:
\* the node has the title's description and still has the children
C17_Witness ==
  /\ bpc = "done"
  /\ \E n \in DOMAIN df : \E m \in DOMAIN df :
       /\ m < n
       /\ IsTitleRow(df, n) /\ df[n].SUB = <<>>
       /\ IsLeafRow(df[m]) /\ df[m].HEADER = df[n].HEADER
       /\ LET heading == NodeAt(hs_tree, <<Take(df[n].HEADER, 2), df[n].HEADER>>)
          IN /\ heading.description = Strip(Str(df[n].DESCRIPTION))
             /\ heading.children # <<>>

(* ---- C18 ---- *)
\* the call ended as the run alone on the same tree, product and answers does
EndsAsAlone(c) ==
  LET alone == RunAlone(classify_product_init(c, self_hs_tree, c.product_description),
                        AnswersOf(c))
  IN /\ Outcome(alone) = Outcome(c)
     /\ alone.classification_path = c.classification_path
     /\ alone.current_node_dict = c.current_node_dict
     /\ alone.current_path_str = c.current_path_str

\* C18: of two classify_product calls whose steps interleave in any order
\* over one loaded tree, each ends as it does when run alone on the answers
\* it received: same path, breadcrumb, final node and result.
C18_Isolated ==
  /\ call.pc \in {"returned", "raised"} => EndsAsAlone(call)
  /\ call2.pc \in {"returned", "raised"} => EndsAsAlone(call2)

\* both calls returned a result, for different products and at different nodes
C18_Witness ==
  /\ call.pc = "returned" /\ "final_hs_code" \in DOMAIN call.result
  /\ call2.pc = "returned" /\ "final_hs_code" \in DOMAIN call2.result
  /\ call.result.product_description # call2.result.product_description
  /\ call.result.final_hs_code # call2.result.final_hs_code
  /\ Len(call2.classification_path) = 4

(* ---- C19 ---- *)
\* the group codes of the marker rows of the frame
MarkedGroups ==
  {Take(Strip(Str(df[n].HEADER)), 2) : n \in {m \in DOMAIN df : IsMarkerRow(df[m])}}

\* the notes of the nodes of the levels below the groups
InnerNotes ==
  LET NotesBelow(heading) ==
        {heading.notes} \cup {heading.children[s].v.notes : s \in DOMAIN heading.children}
      NotesOf(group) ==
        UNION {NotesBelow(group.children[h].v) : h \in DOMAIN group.children}
  IN UNION {NotesOf(hs_tree[g].v) : g \in DOMAIN hs_tree}

\* C19: the notes parse_notes returns (and saves) have an entry for exactly
\* the 2-character codes that start the header of a marker row, so a row
\* with no header outside a block adds none; a group node of the tree holds
\* the entry of its code, or null when there is none, and every heading and
\* subheading node holds null.
C19_NotesKeys ==
  bpc # "start" =>
    /\ DictKeys(chapter_notes) = MarkedGroups
    /\ \A k \in DictKeys(chapter_notes) : Len(k) = 2
    /\ notesFile = File(chapter_notes)
    /\ \A g \in DOMAIN hs_tree :
         hs_tree[g].v.notes = DictGetOr(chapter_notes, hs_tree[g].k, None)
    /\ InnerNotes \subseteq {None}

\* a built tree with a group that has a note and a group that has none, a
\* marker row being the last row of the table
C19_Witness ==
  /\ bpc = "done"
  /\ df # <<>> /\ IsMarkerRow(df[Len(df)])
  /\ \E g \in DOMAIN hs_tree :
       hs_tree[g].v.notes # None /\ hs_tree[g].v.notes = DictGet(chapter_notes, hs_tree[g].k)
  /\ \E g \in DOMAIN hs_tree : hs_tree[g].v.notes = None
  /\ InnerNotes # {}

(* ---- C20 ---- *)
\* the codes the oracle named to a call, in order
CodesHeard(c) ==
  [n \in DOMAIN AnswersOf(c) |-> AnswersOf(c)[n].best_choice_code]

IsPrefix(s, t) == Len(s) <= Len(t) /\ SubSeq(t, 1, Len(s)) = s

\* what a call's navigation came to: where it ended and what it returned,
\* without the product, the justifications and the confidences
Navigation(c) ==
  [pc |-> c.pc, exception |-> c.exception,
   nodes |-> [n \in DOMAIN c.classification_path |->
                [code |-> c.classification_path[n].code,
                 description |-> c.classification_path[n].description]],
   current_node_dict |-> c.current_node_dict,
   answered |-> Len(AnswersOf(c)),
   result |-> IF "final_hs_code" \in DOMAIN c.result
              THEN [final_hs_code |-> c.result.final_hs_code,
                    tariff_details |-> c.result.tariff_details]
              ELSE c.result]

\* every answer one call received differs from every answer the other
\* received in justification and in confidence
AnswersDiffer ==
  \A a \in DOMAIN AnswersOf(call) : \A b \in DOMAIN AnswersOf(call2) :
    /\ AnswersOf(call)[a].justification # AnswersOf(call2)[b].justification
    /\ AnswersOf(call)[a].confidence_score # AnswersOf(call2)[b].confidence_score

\* C20: two calls on one tree that ended, the oracle having named the same
\* codes to both (the codes one call heard begin the codes the other heard)
\* with other justifications and confidences, heard equally many answers,
\* visited the same nodes and returned the same final code and tariff
\* details, or the same error.
C20_SameNavigation ==
  (/\ call.pc \in {"returned", "raised"}
   /\ call2.pc \in {"returned", "raised"}
   /\ AnswersDiffer
   /\ \/ IsPrefix(CodesHeard(call), CodesHeard(call2))
      \/ IsPrefix(CodesHeard(call2), CodesHeard(call)))
  => Navigation(call) = Navigation(call2)

\* both calls went down the same four nodes to a leaf, on answers of
\* different confidence and justification
C20_Witness ==
  /\ call.pc = "returned" /\ "final_hs_code" \in DOMAIN call.result
  /\ call2.pc = "returned" /\ "final_hs_code" \in DOMAIN call2.result
  /\ Len(call.classification_path) = 4
  /\ CodesHeard(call) = CodesHeard(call2)
  /\ call.classification_path[4].confidence # call2.classification_path[4].confidence
  /\ call.classification_path[4].justification # call2.classification_path[4].justification

====
